---- MODULE Spec2Model ----
(***************************************************************************)
(* Model of src/app.py (bet tracker): the American-odds functions, the CSV *)
(* import, the daily aggregation, the performance chart data and the run   *)
(* of main over the session state.                                         *)
(*                                                                         *)
(* Money read from a CSV is an integer number of mills (1/1000 dollar), so *)
(* that round(x, 2) is a real operation.  Values that come out of a        *)
(* division are exact rationals <<numerator, denominator>>.                *)
(***************************************************************************)
EXTENDS Integers, Sequences, FiniteSets, TLC

VARIABLES
    history,          \* st.session_state.history
    uploaded_file,    \* value of the file_uploader widget (NoFile = None)
    historical_bets,  \* what process_csv_upload returned in the last run
    current_month,    \* main: pd.Timestamp.now().replace(day=1).date()
    mtd_closed,       \* main: closed bets kept by the month filter
    chart,            \* main: data of the chart drawn in the last run
    fn_in,            \* call of one function: its name and arguments
    fn_out            \* what that call returned (NoCall before it ran)

vars == <<history, uploaded_file, historical_bets, current_month, mtd_closed,
          chart, fn_in, fn_out>>

mainVars == <<history, uploaded_file, historical_bets, current_month,
              mtd_closed, chart>>

fnVars == <<fn_in, fn_out>>

----------------------------------------------------------------------------
(* Bounds *)

MaxHist == 2     \* records the session history may hold
MaxRows == 1     \* rows of a file uploaded to main
MaxBets == 2     \* bets in a list passed to a function called on its own
MaxLines == 2    \* rows of a file passed to process_csv_upload on its own

----------------------------------------------------------------------------
(* Generic helpers *)

Abs(x) == IF x < 0 THEN -x ELSE x

RECURSIVE Gcd(_, _)
Gcd(a, b) == IF b = 0 THEN a ELSE Gcd(b, a % b)

SeqsUpTo(S, n) == UNION {[1..k -> S] : k \in 0..n}

Range(s) == {s[i] : i \in 1..Len(s)}

Perms(n) == {p \in [1..n -> 1..n] : \A i, j \in 1..n : p[i] = p[j] => i = j}

Permuted(s, p) == [i \in 1..Len(s) |-> s[p[i]]]

IsPrefix(s, t) == Len(s) <= Len(t) /\ \A i \in 1..Len(s) : s[i] = t[i]

----------------------------------------------------------------------------
(* Exact rationals <<n, d>>, d > 0, in lowest terms: the value of a float  *)
(* expression without its representation error.                           *)

Norm(n, d) ==
    LET s == IF d < 0 THEN -1 ELSE 1
        g == Gcd(Abs(n), Abs(d))
    IN  <<(s * n) \div g, (s * d) \div g>>

R(n) == <<n, 1>>
RAdd(a, b) == Norm(a[1] * b[2] + b[1] * a[2], a[2] * b[2])
RMul(a, b) == Norm(a[1] * b[1], a[2] * b[2])
RDiv(a, b) == Norm(a[1] * b[2], a[2] * b[1])     \* b # 0
RAbs(a) == <<Abs(a[1]), a[2]>>

\* A function either returns a value or raises.
Ret(v) == [ok |-> TRUE, val |-> v, err |-> ""]
Raise(e) == [ok |-> FALSE, val |-> R(0), err |-> e]

----------------------------------------------------------------------------
(* Odds math *)

\* calculate_payout(odds, amount): no check of the odds range; odds = 0
\* takes the else branch and divides by zero.
calculate_payout_branch_swapped(odds, amount) ==
    IF odds < 0
    THEN Ret(RAdd(R(amount), RMul(RDiv(R(odds), R(100)), R(amount))))
    ELSE IF odds = 0
         THEN Raise("ZeroDivisionError")
         ELSE Ret(RAdd(R(amount), RMul(RDiv(R(100), RAbs(R(odds))), R(amount))))

calculate_payout(odds, amount) ==
    IF odds > 0
    THEN Ret(RAdd(R(amount), RMul(RDiv(R(odds), R(100)), R(amount))))
    ELSE IF odds = 0
         THEN Raise("ZeroDivisionError")
         ELSE Ret(RAdd(R(amount), RMul(RDiv(R(100), RAbs(R(odds))), R(amount))))

\* calculate_potential(amount, odds)
calculate_potential(amount, odds) ==
    IF odds > 0
    THEN Ret(RMul(R(amount), RDiv(R(odds), R(100))))
    ELSE IF odds = 0
         THEN Raise("ZeroDivisionError")
         ELSE Ret(RDiv(R(amount), RDiv(RAbs(R(odds)), R(100))))

----------------------------------------------------------------------------
(* Dates.  A calendar date is [m, d]: m counts months, d is the day of the *)
(* month.  A timestamp adds the time of day t, 0 being midnight.           *)

Months == 1..2
Days == 1..2
Tods == 0..1

Dates == [m : Months, d : Days]
Nows == [m : Months, d : Days, t : Tods]

DateLE(a, b) == a.m < b.m \/ (a.m = b.m /\ a.d <= b.d)

TsLE(a, b) ==
    \/ a.m < b.m
    \/ a.m = b.m /\ a.d < b.d
    \/ a.m = b.m /\ a.d = b.d /\ a.t <= b.t

\* pd.to_datetime(date): the date at midnight
to_datetime(date) == [m |-> date.m, d |-> date.d, t |-> 0]

\* Timestamp.replace(day=1): only the day changes, the time of day stays
replace_day1(ts) == [ts EXCEPT !.d = 1]

\* Timestamp.date(): drops the time of day
date_of(ts) == [m |-> ts.m, d |-> ts.d]

RECURSIVE SortDates(_)
SortDates(S) ==
    IF S = {} THEN <<>>
    ELSE LET x == CHOOSE x \in S : \A y \in S : TsLE(x, y)
         IN  <<x>> \o SortDates(S \ {x})

RECURSIVE SumSeq(_)
SumSeq(s) == IF s = <<>> THEN 0 ELSE Head(s) + SumSeq(Tail(s))

RECURSIVE RSumSeq(_)
RSumSeq(s) == IF s = <<>> THEN R(0) ELSE RAdd(Head(s), RSumSeq(Tail(s)))

\* Series.cumsum(): running total in row order
cumsum_no_carry(s) == s

RECURSIVE cumsum(_)
cumsum(s) ==
    IF s = <<>> THEN <<>>
    ELSE LET front == cumsum(SubSeq(s, 1, Len(s) - 1))
         IN  Append(front, (IF front = <<>> THEN 0 ELSE front[Len(front)]) + s[Len(s)])

\* round(x, 2) of a value in mills: to the nearest cent, ties to even
Round2(x) ==
    LET a == Abs(x)
        q == a \div 10
        r == a % 10
        up == r > 5 \/ (r = 5 /\ q % 2 = 1)
        c == 10 * (IF up THEN q + 1 ELSE q)
    IN  IF x < 0 THEN -c ELSE c

----------------------------------------------------------------------------
(* CSV import *)

\* A numeric cell holds mills; a text cell makes float() raise ValueError.
Num(v) == [k |-> "num", v |-> v]
Text == [k |-> "text", v |-> 0]

\* A date cell in the expected format, or one the date parser rejects.
DateCell(date) == [k |-> "date", m |-> date.m, d |-> date.d]
BadDate == [k |-> "bad", m |-> 0, d |-> 0]

required_columns == {"date", "amount_usd", "price", "outcome", "outcome_amount"}

\* str(x).strip().lower() on the outcome cells the model draws
strip_lower(s) ==
    CASE s = " Win " -> "win"
      [] s = "WIN"   -> "win"
      [] OTHER       -> s

\* pd.isna(row['outcome']): an empty cell is read as NaN
isna(s) == s = ""

\* float(cell) raises ValueError on text
float_raises(cell) == cell.k = "text"

\* Lines 51-74: the bet built from one row (all its cells numeric)
row_result(row) == IF strip_lower(row.outcome) = "win" THEN "WIN" ELSE "LOSS"

make_bet_loss_keeps_payout(row) ==
    LET result == row_result(row)
        profit == IF result = "WIN"
                  THEN row.outcome_amount.v - row.amount_usd.v
                  ELSE -row.amount_usd.v
        payout == row.outcome_amount.v
    IN  [Date   |-> [m |-> row.date.m, d |-> row.date.d],
         Amount |-> row.amount_usd.v,
         Odds   |-> row.price.v,
         Result |-> result,
         Payout |-> Round2(payout),
         Profit |-> Round2(profit),
         Status |-> "CLOSED"]

make_bet(row) ==
    LET result == row_result(row)
        profit == IF result = "WIN"
                  THEN row.outcome_amount.v - row.amount_usd.v
                  ELSE -row.amount_usd.v
        payout == IF result = "WIN" THEN row.outcome_amount.v ELSE 0
    IN  [Date   |-> [m |-> row.date.m, d |-> row.date.d],
         Amount |-> row.amount_usd.v,
         Odds   |-> row.price.v,
         Result |-> result,
         Payout |-> Round2(payout),
         Profit |-> Round2(profit),
         Status |-> "CLOSED"]

\* the float() calls one row makes, any of which may raise
row_raises(row) ==
    \/ row_result(row) = "WIN" /\ float_raises(row.outcome_amount)
    \/ float_raises(row.amount_usd)
    \/ float_raises(row.price)

\* Lines 45-75: the loop; an exception in any row leaves through the
\* except clause of the function, which returns [].
RECURSIVE import_rows(_, _)
import_rows(rows, bets) ==
    IF rows = <<>> THEN [ok |-> TRUE, bets |-> bets]
    ELSE LET row == Head(rows)
         IN  IF isna(row.outcome) THEN import_rows(Tail(rows), bets)
             ELSE IF row_raises(row) THEN [ok |-> FALSE, bets |-> <<>>]
             ELSE import_rows(Tail(rows), Append(bets, make_bet(row)))

\* pd.read_csv(parse_dates=['date'], date_parser=...) raises when the file
\* has no date column or when the parser rejects a cell of it.
read_csv_raises(file) ==
    \/ "date" \notin file.columns
    \/ \E i \in 1..Len(file.rows) : file.rows[i].date.k = "bad"

process_csv_upload_no_column_check(file) ==
    IF read_csv_raises(file) THEN <<>>
    ELSE LET got == import_rows(file.rows, <<>>)
         IN  IF got.ok THEN got.bets ELSE <<>>

process_csv_upload(file) ==
    IF read_csv_raises(file) THEN <<>>
    ELSE IF ~(required_columns \subseteq file.columns) THEN <<>>
    ELSE LET got == import_rows(file.rows, <<>>)
         IN  IF got.ok THEN got.bets ELSE <<>>

----------------------------------------------------------------------------
(* Daily aggregation *)

\* Lines 101-105: the profit of a bet, recomputed from Payout and Amount
bet_profit(b) == IF b.Result = "WIN" THEN b.Payout - b.Amount ELSE -b.Amount

Column(s, Op(_)) == [i \in 1..Len(s) |-> Op(s[i])]

\* df.groupby('Date').agg(sum).reset_index(): one row per distinct date,
\* ascending by date, with the sums of Profit and Amount
groupby_date(df) ==
    LET keys == SortDates({df[i].Date : i \in 1..Len(df)})
    IN  [k \in 1..Len(keys) |->
            LET grp == SelectSeq(df, LAMBDA r : r.Date = keys[k])
            IN  [Date   |-> keys[k],
                 Profit |-> SumSeq(Column(grp, LAMBDA r : r.Profit)),
                 Amount |-> SumSeq(Column(grp, LAMBDA r : r.Amount))]]

\* Lines 96-99: the month filter; current_month keeps now's time of day
month_filter(df, now) ==
    LET first == replace_day1(now)
    IN  SelectSeq(df, LAMBDA r : TsLE(first, r.Date))

\* get_daily_metrics(bets, month_to_date), with now = pd.Timestamp.now().
\* When the filter keeps no row, what df.apply(axis=1) gives back depends on
\* the pandas release: an empty column (the function returns an empty
\* frame) or a frame, whose assignment to df['Profit'] raises ValueError;
\* empty_apply_raises says which.
get_daily_metrics(bets, month_to_date, now, empty_apply_raises) ==
    IF bets = <<>> THEN Ret(<<>>)
    ELSE LET df == Column(bets, LAMBDA b : [b EXCEPT !.Date = to_datetime(@)])
             kept == IF month_to_date THEN month_filter(df, now) ELSE df
         IN  IF kept = <<>>
             THEN IF empty_apply_raises THEN Raise("ValueError") ELSE Ret(<<>>)
             ELSE LET withProfit == Column(kept, LAMBDA r : [r EXCEPT !.Profit = bet_profit(r)])
                      daily == groupby_date(withProfit)
                      cum == cumsum(Column(daily, LAMBDA g : g.Profit))
                  IN  Ret([k \in 1..Len(daily) |->
                            [Date |-> daily[k].Date, Profit |-> daily[k].Profit,
                             Amount |-> daily[k].Amount, Cumulative |-> cum[k]]])

----------------------------------------------------------------------------
(* Chart data *)

\* Lines 127-131: the 'Actual' rows, one per closed bet in the order given,
\* Cumulative being the running total of Profit in that order
closed_frame(closed_bets) ==
    LET cum == cumsum(Column(closed_bets, LAMBDA b : b.Profit))
    IN  [i \in 1..Len(closed_bets) |->
            [Date |-> to_datetime(closed_bets[i].Date), Type |-> "Actual",
             Profit |-> closed_bets[i].Profit, Cumulative |-> cum[i]]]

\* Lines 143-148: open bets grouped by date
open_daily_frame(open_bets) ==
    LET df == Column(open_bets, LAMBDA b :
                  [Date |-> to_datetime(b.Date),
                   Potential_Win |-> calculate_potential(b.Amount, b.Odds).val,
                   Potential_Loss |-> -b.Amount])
        keys == SortDates({df[i].Date : i \in 1..Len(df)})
    IN  [k \in 1..Len(keys) |->
            LET grp == SelectSeq(df, LAMBDA r : r.Date = keys[k])
                win == RSumSeq(Column(grp, LAMBDA r : r.Potential_Win))
                loss == SumSeq(Column(grp, LAMBDA r : r.Potential_Loss))
            IN  [Date |-> keys[k], Potential_Win |-> win, Potential_Loss |-> loss,
                 Cumulative |-> RAdd(win, R(loss))]]

\* Line 212: closed_df['Cumulative'].iloc[-1]
last_actual_first_row(closed_df) == closed_df[1].Cumulative

last_actual(closed_df) == closed_df[Len(closed_df)].Cumulative

\* plot_daily_performance(closed_bets, open_bets): the data of the chart.
\* The 'Actual' series plots closed_df, the 'Projected' series open_daily.
plot_daily_performance(closed_bets, open_bets) ==
    IF \E i \in 1..Len(open_bets) : ~calculate_potential(open_bets[i].Amount, open_bets[i].Odds).ok
    THEN Raise("ZeroDivisionError")
    ELSE LET closed_df == closed_frame(closed_bets)
             open_daily == open_daily_frame(open_bets)
             shifted == Column(open_daily, LAMBDA g :
                           [g EXCEPT !.Cumulative = RAdd(@, R(last_actual(closed_df)))])
         IN  Ret([actual |-> closed_df,
                  projected |-> IF closed_df # <<>> /\ open_daily # <<>>
                                THEN shifted ELSE open_daily])

----------------------------------------------------------------------------
(* The run of main over the session state *)

NoFile == [columns |-> {}, rows |-> <<>>, none |-> TRUE]

NoChart == [ok |-> TRUE, val |-> [actual |-> <<>>, projected |-> <<>>], err |-> "No data available"]

\* The cells an uploaded file may hold
DateCells == {DateCell(date) : date \in {[m |-> 1, d |-> 2], [m |-> 2, d |-> 1]}}
AmountCells == {Num(1004)}
PriceCells == {Num(-110000)}
OutcomeCells == {" Win ", "loss", ""}
OutcomeAmountCells == {Num(3007)}

Rows == [date : DateCells, amount_usd : AmountCells, price : PriceCells,
         outcome : OutcomeCells, outcome_amount : OutcomeAmountCells]

ColumnSets == {required_columns, required_columns \ {"outcome_amount"}}

Files == [columns : ColumnSets, rows : SeqsUpTo(Rows, MaxRows), none : {FALSE}]

\* Lines 266-280: the closed bets of the current month, in ledger order
month_to_date_closed(closed_bets, first) ==
    SelectSeq(closed_bets, LAMBDA b : DateLE(first, b.Date))

\* Line 249: st.session_state.history.extend(historical_bets)
extend_skip_known(hist, bets) ==
    hist \o SelectSeq(bets, LAMBDA b : b \notin Range(hist))

extend(hist, bets) == hist \o bets

\* Line 262: the values pd.Timestamp.now().replace(day=1).date() can take
FirstDays == {date_of(replace_day1(now)) : now \in Nows}

\* main(), run with the widget holding `file`, `first` being the first day
\* of the month of the wall clock
Main(file, first) ==
    LET bets == IF file.none THEN <<>> ELSE process_csv_upload(file)
        hist == IF bets # <<>> THEN extend(history, bets) ELSE history
        closed_bets == SelectSeq(hist, LAMBDA b : b.Status = "CLOSED")
        open_bets == SelectSeq(hist, LAMBDA b : b.Status = "OPEN")
        mtd == month_to_date_closed(closed_bets, first)
    IN  /\ Len(hist) <= MaxHist
        /\ DateLE(current_month, first)
        /\ uploaded_file' = file
        /\ historical_bets' = bets
        /\ history' = hist
        /\ current_month' = first
        /\ mtd_closed' = mtd
        /\ chart' = IF mtd # <<>> \/ open_bets # <<>>
                    THEN plot_daily_performance(mtd, open_bets)
                    ELSE NoChart
        /\ UNCHANGED fnVars

\* The user attaches a file: the script reruns with it
Upload == \E file \in Files, first \in FirstDays : Main(file, first)

\* Any other interaction: the script reruns, the file still attached
Rerun == \E first \in FirstDays : Main(uploaded_file, first)

\* The user removes the file: the script reruns without one
RemoveFile == ~uploaded_file.none /\ \E first \in FirstDays : Main(NoFile, first)

NoCall == [ok |-> FALSE, val |-> R(0), err |-> "not called"]
NoInput == [fn |-> "none"]

\* The state after the first run of main, no file attached yet
Init ==
    /\ history = <<>>
    /\ uploaded_file = NoFile
    /\ historical_bets = <<>>
    /\ current_month \in FirstDays
    /\ mtd_closed = <<>>
    /\ chart = NoChart
    /\ fn_in = NoInput
    /\ fn_out = NoCall

Next == Upload \/ Rerun \/ RemoveFile

Spec == Init /\ [][Next]_vars

----------------------------------------------------------------------------
(* The functions called on their own: Init draws the arguments, the action *)
(* of the function applies it.                                             *)

OddsValues == {-200, -110, -100, -50, 0, 50, 100, 150}
StakeValues == {0, 50, 110}

\* bets as get_daily_metrics reads them (Profit is overwritten by it)
MetricBets == [Date : Dates, Amount : {10}, Result : {"WIN", "LOSS"},
               Payout : {10, 30}, Profit : {999}]

\* bets as plot_daily_performance reads them
ClosedBets == [Date : Dates, Profit : {-10, 25}]
OpenBets == [Date : {[m |-> 2, d |-> 1], [m |-> 2, d |-> 2]}, Amount : {30},
             Odds : {150, -200, 0}]

\* files with cells the date parser or float() rejects
TextRows == [date : DateCells \cup {BadDate}, amount_usd : AmountCells \cup {Text}, price : PriceCells,
             outcome : OutcomeCells, outcome_amount : OutcomeAmountCells]
TextFiles == [columns : ColumnSets \cup {required_columns \ {"date"}},
              rows : SeqsUpTo(TextRows, MaxLines), none : {FALSE}]

PayoutInputs == [fn : {"calculate_payout"}, odds : OddsValues, amount : StakeValues]
PotentialInputs == [fn : {"calculate_potential"}, odds : OddsValues, amount : StakeValues]
MetricInputs == [fn : {"get_daily_metrics"}, bets : SeqsUpTo(MetricBets, MaxBets),
                 month_to_date : BOOLEAN, now : Nows]
PlotInputs == [fn : {"plot_daily_performance"}, closed_bets : SeqsUpTo(ClosedBets, MaxBets),
               open_bets : SeqsUpTo(OpenBets, MaxBets)]
CsvInputs == [fn : {"process_csv_upload"}, file : TextFiles]

Called == fn_out.err # "not called"

CallPayout ==
    /\ fn_in.fn = "calculate_payout" /\ ~Called
    /\ fn_out' = calculate_payout(fn_in.odds, fn_in.amount)
    /\ UNCHANGED <<fn_in, mainVars>>

CallPotential ==
    /\ fn_in.fn = "calculate_potential" /\ ~Called
    /\ fn_out' = calculate_potential(fn_in.amount, fn_in.odds)
    /\ UNCHANGED <<fn_in, mainVars>>

CallDailyMetrics ==
    /\ fn_in.fn = "get_daily_metrics" /\ ~Called
    /\ \E empty_apply_raises \in BOOLEAN :
          fn_out' = get_daily_metrics(fn_in.bets, fn_in.month_to_date, fn_in.now,
                                      empty_apply_raises)
    /\ UNCHANGED <<fn_in, mainVars>>

CallPlot ==
    /\ fn_in.fn = "plot_daily_performance" /\ ~Called
    /\ fn_out' = plot_daily_performance(fn_in.closed_bets, fn_in.open_bets)
    /\ UNCHANGED <<fn_in, mainVars>>

CallCsv ==
    /\ fn_in.fn = "process_csv_upload" /\ ~Called
    /\ fn_out' = Ret(process_csv_upload(fn_in.file))
    /\ UNCHANGED <<fn_in, mainVars>>

InitFn ==
    /\ history = <<>>
    /\ uploaded_file = NoFile
    /\ historical_bets = <<>>
    /\ current_month = [m |-> 1, d |-> 1]
    /\ mtd_closed = <<>>
    /\ chart = NoChart
    /\ fn_in \in PayoutInputs \cup PotentialInputs \cup MetricInputs \cup PlotInputs \cup CsvInputs
    /\ fn_out = NoCall

NextFn == CallPayout \/ CallPotential \/ CallDailyMetrics \/ CallPlot \/ CallCsv

SpecFn == InitFn /\ [][NextFn]_vars

----------------------------------------------------------------------------
(* Claims *)

CalledFn(name) == fn_in.fn = name /\ Called

\* C1: for amount >= 0, calculate_payout(odds, amount) is
\* amount + amount*odds/100 when odds >= 100 and
\* amount + amount*100/abs(odds) when odds <= -100.
C1_PayoutFormula ==
    (CalledFn("calculate_payout") /\ fn_in.amount >= 0) =>
        /\ fn_in.odds >= 100 =>
              /\ fn_out.ok
              /\ fn_out.val = RAdd(R(fn_in.amount), RDiv(R(fn_in.amount * fn_in.odds), R(100)))
        /\ fn_in.odds <= -100 =>
              /\ fn_out.ok
              /\ fn_out.val = RAdd(R(fn_in.amount), RDiv(R(fn_in.amount * 100), R(Abs(fn_in.odds))))

\* payout(150, 50) = 125 has been computed
C1_Witness ==
    /\ CalledFn("calculate_payout")
    /\ fn_in.odds = 150 /\ fn_in.amount = 50
    /\ fn_out.ok /\ fn_out.val = <<125, 1>>

\* C2 as stated: with -100 < odds < 100 the payout and the potential-win
\* computations fail instead of returning a number.
C2_InvalidOddsFail ==
    ((CalledFn("calculate_payout") \/ CalledFn("calculate_potential"))
        /\ -100 < fn_in.odds /\ fn_in.odds < 100) => ~fn_out.ok

\* sums over a set of indices, for stating totals independently of cumsum
RECURSIVE SumIdx(_, _)
SumIdx(S, f) ==
    IF S = {} THEN 0
    ELSE LET i == CHOOSE i \in S : TRUE IN f[i] + SumIdx(S \ {i}, f)

RECURSIVE RSumIdx(_, _)
RSumIdx(S, f) ==
    IF S = {} THEN R(0)
    ELSE LET i == CHOOSE i \in S : TRUE IN RAdd(f[i], RSumIdx(S \ {i}, f))

Before(a, b) == TsLE(a, b) /\ a # b

\* C5 as stated: with month_to_date=True, get_daily_metrics keeps exactly
\* the bets dated on or after the first day of the current month, whatever
\* the day and the time of day of now.
C5_MonthToDateKeepsFirstDay ==
    (CalledFn("get_daily_metrics") /\ fn_in.month_to_date /\ fn_out.ok) =>
        LET first == date_of(replace_day1(fn_in.now))
            bets == fn_in.bets
        IN  {fn_out.val[k].Date : k \in 1..Len(fn_out.val)}
              = {to_datetime(bets[i].Date) : i \in {j \in 1..Len(bets) : DateLE(first, bets[j].Date)}}

\* C6: get_daily_metrics returns one bucket per distinct date of the bets
\* that passed its filter, in strictly ascending date order; the Cumulative
\* of a bucket is the sum of the profits of all bets dated on or before it;
\* a bucket of zero profit is present like any other.
C6_BucketsAndPrefixSums ==
    (CalledFn("get_daily_metrics") /\ fn_out.ok) =>
        LET bets == fn_in.bets
            out == fn_out.val
            ts == [i \in 1..Len(bets) |-> to_datetime(bets[i].Date)]
            kept == {i \in 1..Len(bets) :
                        fn_in.month_to_date => TsLE(replace_day1(fn_in.now), ts[i])}
            profit == [i \in 1..Len(bets) |-> bet_profit(bets[i])]
        IN  /\ {out[k].Date : k \in 1..Len(out)} = {ts[i] : i \in kept}
            /\ Len(out) = Cardinality({ts[i] : i \in kept})
            /\ \A k \in 1..(Len(out) - 1) : Before(out[k].Date, out[k + 1].Date)
            /\ \A k \in 1..Len(out) :
                  /\ out[k].Profit = SumIdx({i \in kept : ts[i] = out[k].Date}, profit)
                  /\ out[k].Cumulative = SumIdx({i \in kept : TsLE(ts[i], out[k].Date)}, profit)

\* two buckets came back, the later one of zero profit after a non-zero one
C6_Witness ==
    /\ CalledFn("get_daily_metrics") /\ fn_out.ok
    /\ Len(fn_out.val) = 2
    /\ fn_out.val[1].Profit # 0
    /\ fn_out.val[2].Profit = 0
    /\ fn_out.val[2].Cumulative = fn_out.val[1].Profit
    /\ to_datetime(fn_in.bets[1].Date) = fn_out.val[2].Date

\* C9: in plot_daily_performance with closed and open bets both non-empty,
\* the projected point of a date is the sum of potential_win plus the sum of
\* -Amount of that date's open bets plus the sum of Profit of all closed
\* bets; with no closed bets the projected points carry no offset.
C9_ProjectedOffset ==
    (CalledFn("plot_daily_performance") /\ fn_out.ok) =>
        LET closed == fn_in.closed_bets
            open == fn_in.open_bets
            out == fn_out.val.projected
            ts == [i \in 1..Len(open) |-> to_datetime(open[i].Date)]
            win == [i \in 1..Len(open) |-> calculate_potential(open[i].Amount, open[i].Odds).val]
            loss == [i \in 1..Len(open) |-> -open[i].Amount]
            realized == SumIdx(1..Len(closed), [i \in 1..Len(closed) |-> closed[i].Profit])
        IN  /\ {out[k].Date : k \in 1..Len(out)} = {ts[i] : i \in 1..Len(open)}
            /\ Len(out) = Cardinality({ts[i] : i \in 1..Len(open)})
            /\ \A k \in 1..Len(out) :
                  LET day == {i \in 1..Len(open) : ts[i] = out[k].Date}
                      own == RAdd(RSumIdx(day, win), R(SumIdx(day, loss)))
                  IN  out[k].Cumulative =
                        IF closed # <<>> THEN RAdd(own, R(realized)) ELSE own

\* two closed bets of different profit and two open bets of one date
C9_Witness ==
    /\ CalledFn("plot_daily_performance") /\ fn_out.ok
    /\ Len(fn_in.closed_bets) = 2
    /\ fn_in.closed_bets[1].Profit # fn_in.closed_bets[2].Profit
    /\ Len(fn_in.open_bets) = 2
    /\ fn_in.open_bets[1].Odds # fn_in.open_bets[2].Odds
    /\ Len(fn_out.val.projected) = 1
    /\ fn_out.val.projected[1].Cumulative = <<15, 1>>

MissingColumn(file) == ~file.none /\ ~(required_columns \subseteq file.columns)

\* C3: a run of main with a file that lacks a required column gets no bets
\* from process_csv_upload and leaves the session history as it was.
C3_MissingColumnsNothingImported ==
    [][MissingColumn(uploaded_file') =>
          (historical_bets' = <<>> /\ history' = history)]_vars

\* a file without a required column, holding a row that would import, was
\* run against a non-empty history
C3_Witness ==
    /\ MissingColumn(uploaded_file)
    /\ \E i \in 1..Len(uploaded_file.rows) :
          /\ uploaded_file.rows[i].date.k = "date"
          /\ ~isna(uploaded_file.rows[i].outcome)
    /\ history # <<>>
    /\ historical_bets = <<>>

\* C4 as stated: with all required columns present and exactly one row whose
\* date cannot be parsed, only that row is skipped: the other rows with an
\* outcome are still returned by process_csv_upload.
C4_OnlyBadRowSkipped ==
    (/\ CalledFn("process_csv_upload")
     /\ required_columns \subseteq fn_in.file.columns
     /\ \A i \in 1..Len(fn_in.file.rows) : ~row_raises(fn_in.file.rows[i])
     /\ Cardinality({i \in 1..Len(fn_in.file.rows) : fn_in.file.rows[i].date.k = "bad"}) = 1)
    => LET others == SelectSeq(fn_in.file.rows,
                        LAMBDA r : r.date.k # "bad" /\ ~isna(r.outcome))
       IN  fn_out.val = [i \in 1..Len(others) |-> make_bet(others[i])]

Points(frame) == {<<frame[i].Date, frame[i].Cumulative>> : i \in 1..Len(frame)}

\* C7 as stated: the realized series is the same set of (date, cumulative)
\* points for every permutation of the closed bets, for get_daily_metrics
\* and for the 'Actual' series of the chart main draws.
C7_OrderIndependent ==
    mtd_closed # <<>> =>
        \A p \in Perms(Len(mtd_closed)) :
            LET shuffled == Permuted(mtd_closed, p)
                anyNow == [m |-> 1, d |-> 1, t |-> 0]
            IN  /\ Points(get_daily_metrics(shuffled, FALSE, anyNow, FALSE).val)
                     = Points(get_daily_metrics(mtd_closed, FALSE, anyNow, FALSE).val)
                /\ Points(plot_daily_performance(shuffled, <<>>).val.actual)
                     = Points(chart.val.actual)

\* C8 as stated: every record of the history is CLOSED with Result WIN or
\* LOSS; a LOSS has Payout 0 and Profit = -Amount, a WIN has
\* Profit = Payout - Amount (Payout being the row's outcome_amount).
C8_RecordsExact ==
    \A i \in 1..Len(history) :
        LET b == history[i]
        IN  /\ b.Status = "CLOSED"
            /\ b.Result \in {"WIN", "LOSS"}
            /\ b.Result = "LOSS" => (b.Payout = 0 /\ b.Profit = -b.Amount)
            /\ b.Result = "WIN" => b.Profit = b.Payout - b.Amount

\* C8 amended: every record of the history is CLOSED with Result WIN or
\* LOSS; a LOSS has Payout 0 and Profit = round(-Amount, 2); the bets of a
\* batch are, in order, its rows with a non-empty outcome, a WIN having
\* Payout = round(outcome_amount, 2) and
\* Profit = round(outcome_amount - amount_usd, 2); a row with an empty
\* outcome produces no record.
C8_RecordsRounded ==
    /\ \A i \in 1..Len(history) :
          LET b == history[i]
          IN  /\ b.Status = "CLOSED"
              /\ b.Result \in {"WIN", "LOSS"}
              /\ b.Result = "LOSS" => (b.Payout = 0 /\ b.Profit = Round2(-b.Amount))
    /\ historical_bets # <<>> =>
          LET settled == SelectSeq(uploaded_file.rows, LAMBDA r : r.outcome # "")
          IN  /\ Len(historical_bets) = Len(settled)
              /\ \A i \in 1..Len(settled) :
                    LET b == historical_bets[i]
                        r == settled[i]
                    IN  /\ b.Amount = r.amount_usd.v
                        /\ b.Result = "WIN" <=> r.outcome = " Win "
                        /\ b.Result = "WIN" =>
                              /\ b.Payout = Round2(r.outcome_amount.v)
                              /\ b.Profit = Round2(r.outcome_amount.v - r.amount_usd.v)

\* the history holds a WIN and a LOSS with sub-cent amounts, and the file of
\* the last run, with all its columns, held a row with an empty outcome
C8_Witness ==
    /\ \E i, j \in 1..Len(history) :
          /\ history[i].Result = "WIN" /\ history[i].Payout # 0
          /\ history[j].Result = "LOSS" /\ history[j].Profit # -history[j].Amount
    /\ required_columns \subseteq uploaded_file.columns
    /\ \E i \in 1..Len(uploaded_file.rows) : uploaded_file.rows[i].outcome = ""
    /\ Len(historical_bets) < Len(uploaded_file.rows)

\* C10: over a run of main the history before is a prefix of the history
\* after, which is longer by the number of bets process_csv_upload returned
\* in the run; a rerun with the same file attached gets the same batch and
\* appends it again.
C10_AppendOnly ==
    [][/\ IsPrefix(history, history')
       /\ Len(history') = Len(history) + Len(historical_bets')
       /\ SubSeq(history', Len(history) + 1, Len(history')) = historical_bets'
       /\ uploaded_file' = uploaded_file => historical_bets' = historical_bets]_vars

\* the same non-empty batch stands twice in the history
C10_Witness ==
    /\ historical_bets # <<>>
    /\ ~uploaded_file.none
    /\ history = historical_bets \o historical_bets

====
